---- MODULE Spec2Model ----
(***************************************************************************)
(* Webcam monitor (src/main.py): the poll loop over the Windows consent    *)
(* store, the stream loop over the macOS log stream, edge detection, the   *)
(* two notification sinks and the process-level start-up and shutdown.     *)
(***************************************************************************)
EXTENDS Integers, Sequences, FiniteSets, TLC

VARIABLES
  pc,               \* where main() is: "init", "banner", "select", "poll",
                    \* "launch", "launched", "stream", "exited"; for a lone
                    \* call of notify_mobile: "notify", "notified"
  os_name,          \* platform.system()
  FIREBASE_ENABLED, \* module global, main.py:52
  firebase_db,      \* module global _firebase_db: "None" or "db"
  fb_path,          \* which return of _init_firebase was taken
  was_in_use,       \* the stored ActivityState of the running loop
  in_use,           \* the state observed by the last poll tick / marker line
  obs,              \* the normalized observations so far, oldest first
  events,           \* the edge events printed so far ("Started" / "Stopped")
  steps,            \* what the last loop iteration did, in order
  beepCalls,        \* invocations of play_beep
  notifyCalls,      \* invocations of notify_mobile
  pushAttempts,     \* calls of ref.push inside notify_mobile
  ticks,            \* loop iterations done (poll ticks or lines read)
  line,             \* the last line readline() returned (stream loop)
  reg,              \* the consent store snapshot the last poll tick read
  sample,           \* what the last poll tick's enumeration did
  child,            \* the log-stream child: "none", "running", "exited", "terminated"
  exitCode,         \* process exit status once pc = "exited", else -1
  interrupted,      \* where a KeyboardInterrupt was delivered, else "no"
  launches,         \* calls of subprocess.Popen
  fb_env,           \* what _init_firebase found: SDK, credentials, URL, init
  details,          \* a details argument given to notify_mobile
  pushed            \* the details field of the event_data pushed for it

vars == <<pc, os_name, FIREBASE_ENABLED, firebase_db, fb_path, was_in_use, in_use,
          obs, events, steps, beepCalls, notifyCalls, pushAttempts, ticks, line,
          reg, sample, child, exitCode, interrupted, launches, fb_env, details,
          pushed>>

\* Bounds of the model.
MaxTicks == 5       \* loop iterations explored
MaxShort == 20      \* details strings of length 0..MaxShort, and
MaxOver == 20       \* of length DetailLimit - MaxOver .. DetailLimit + MaxOver

(***************************************************************************)
(* Python exceptions met by the code, and the handlers that match them.    *)
(***************************************************************************)
Exc == {"OSError", "FileNotFoundError", "PermissionError"}

\* isinstance(e, cls) for the exception classes above.
IsInstance(e, cls) ==
  \/ e = cls
  \/ cls = "Exception" /\ e \in Exc
  \/ cls = "OSError" /\ e \in {"FileNotFoundError", "PermissionError"}

(***************************************************************************)
(* The consent store (Windows registry) as one poll tick sees it.          *)
(* A subkey has a name, the outcome of OpenKey on it, the outcome of       *)
(* QueryValueEx(subkey, "LastUsedTimeStop") and the value read.            *)
(***************************************************************************)
Subkey(n, o, q, v) == [name |-> n, open |-> o, query |-> q, stop |-> v]

\* The NonPackaged group appears as a subkey of the webcam key.
NonPackagedKey == Subkey("NonPackaged", "ok", "ok", 1)

Registry(w, p, k, n) == [webcam |-> w, pkg |-> p, nonpkgKey |-> k, nonpkg |-> n]

\* Consumer records: LastUsedTimeStop 0 (in use) or not 0, the value missing
\* or unreadable, and a key that EnumKey lists but OpenKey cannot open.
Active == Subkey("app", "ok", "ok", 0)
Inactive == Subkey("app", "ok", "ok", 1)
NoValue == Subkey("app", "ok", "FileNotFoundError", 1)
ValueDenied == Subkey("app", "ok", "PermissionError", 1)
KeyGone == Subkey("app", "FileNotFoundError", "ok", 1)
KeyDenied == Subkey("app", "PermissionError", "ok", 1)

\* The snapshots a poll tick may read: one for every path through the
\* enumeration (each handler, each group, the early exit).  The NonPackaged
\* subkey is listed under the webcam key exactly when that key exists.
TickSnapshots ==
  { Registry("FileNotFoundError", <<>>, "FileNotFoundError", <<>>),
    Registry("PermissionError", <<>>, "PermissionError", <<>>),
    Registry("ok", <<Inactive>>, "FileNotFoundError", <<>>),
    Registry("ok", <<Active, Inactive>>, "FileNotFoundError", <<>>),
    Registry("ok", <<Inactive, NonPackagedKey>>, "ok", <<Inactive, Active>>),
    Registry("ok", <<NonPackagedKey, Inactive>>, "ok", <<Inactive>>),
    Registry("ok", <<NoValue, Active>>, "FileNotFoundError", <<>>),
    Registry("ok", <<NonPackagedKey>>, "ok", <<NoValue, Inactive>>),
    Registry("ok", <<KeyGone, Active>>, "FileNotFoundError", <<>>),
    Registry("ok", <<KeyDenied, NonPackagedKey>>, "ok", <<Active>>),
    Registry("ok", <<NonPackagedKey>>, "ok", <<ValueDenied, Active>>),
    Registry("ok", <<Inactive, NonPackagedKey>>, "PermissionError", <<>>) }

EmptyRegistry == Registry("FileNotFoundError", <<>>, "FileNotFoundError", <<>>)


(***************************************************************************)
(* One enumeration of the store, main.py:165-226.  The result records the  *)
(* value of in_use and every exception raised with the handler that        *)
(* caught it.                                                              *)
(***************************************************************************)
Caught(h, e) == <<h, e>>

\* The inner "while True" over the subkeys of one group, from index i on
\* (main.py:174-192 with skip = TRUE, main.py:205-220 with skip = FALSE).
\* The group's in_use is FALSE on entry and the loop breaks when it is set.
RECURSIVE ScanGroup(_, _, _)
ScanGroup(entries, i, skip) ==
  IF i > Len(entries)
  THEN \* EnumKey raises OSError past the last subkey: except OSError: break
       [in_use |-> FALSE, caught |-> {Caught("enum_break", "OSError")}, raised |-> "none"]
  ELSE LET e == entries[i] IN
       IF skip /\ e.name = "NonPackaged"
       THEN ScanGroup(entries, i + 1, skip)
       ELSE IF e.open # "ok"
       THEN \* OpenKey(key, subkey_name) raises inside the try of the loop
            IF IsInstance(e.open, "OSError")
            THEN [in_use |-> FALSE, caught |-> {Caught("enum_break", e.open)},
                  raised |-> "none"]
            ELSE [in_use |-> FALSE, caught |-> {}, raised |-> e.open]
       ELSE IF e.query # "ok"
       THEN \* QueryValueEx raises: only FileNotFoundError is passed over
            IF IsInstance(e.query, "FileNotFoundError")
            THEN LET rest == ScanGroup(entries, i + 1, skip) IN
                 [rest EXCEPT !.caught = @ \cup {Caught("value_missing", e.query)}]
            ELSE IF IsInstance(e.query, "OSError")
            THEN [in_use |-> FALSE, caught |-> {Caught("enum_break", e.query)},
                  raised |-> "none"]
            ELSE [in_use |-> FALSE, caught |-> {}, raised |-> e.query]
       ELSE IF e.stop = 0
       THEN \* in_use = True; CloseKey; break
            [in_use |-> TRUE, caught |-> {}, raised |-> "none"]
       ELSE ScanGroup(entries, i + 1, skip)

\* One group: open its key, scan it, pass over a FileNotFoundError
\* (main.py:168-195 and main.py:199-223).
CheckGroup(keyOpen, entries, skip) ==
  LET r == IF keyOpen # "ok"
           THEN [in_use |-> FALSE, caught |-> {}, raised |-> keyOpen]
           ELSE ScanGroup(entries, 1, skip)
  IN IF r.raised # "none" /\ IsInstance(r.raised, "FileNotFoundError")
     THEN [r EXCEPT !.caught = @ \cup {Caught("group_missing", r.raised)},
                    !.raised = "none"]
     ELSE r

\* An exception e reaching the handler of the outer try, which catches
\* class cls: caught and printed, or raised out of the tick.
Outer(now, caught, e, cls) ==
  IF IsInstance(e, cls)
  THEN [in_use |-> now, caught |-> caught \cup {Caught("outer", e)}, raised |-> "none"]
  ELSE [in_use |-> now, caught |-> caught, raised |-> e]

\* The body of the outer try of one poll tick (main.py:165-223) under a
\* handler "except cls".
SampleWith(r, cls) ==
  LET p == CheckGroup(r.webcam, r.pkg, TRUE) IN
  IF p.raised # "none"
  THEN Outer(p.in_use, p.caught, p.raised, cls)
  ELSE IF p.in_use
  THEN [in_use |-> TRUE, caught |-> p.caught, raised |-> "none"]
  ELSE LET n == CheckGroup(r.nonpkgKey, r.nonpkg, FALSE) IN
       IF n.raised # "none"
       THEN Outer(n.in_use, p.caught \cup n.caught, n.raised, cls)
       ELSE [in_use |-> n.in_use, caught |-> p.caught \cup n.caught, raised |-> "none"]

\* Variant: the outer handler catches only FileNotFoundError.
SampleNarrowHandler(r) == SampleWith(r, "FileNotFoundError")

\* The outer try of one poll tick and its except Exception
\* (main.py:165-226).
Sample(r) == SampleWith(r, "Exception")

NoSample == [in_use |-> FALSE, caught |-> {}, raised |-> "none"]

(***************************************************************************)
(* Lines of the log stream.  A line is known by what the loop looks at:    *)
(* how it begins and which marker tokens it contains.                      *)
(***************************************************************************)
Line(k, p, st, sp) == [kind |-> k, prefix |-> p, start |-> st, stop |-> sp]

\* readline() results for a running child: text lines ("\n"-terminated, so
\* never falsy).  prefix: "date" = begins YYYY-MM-DD, "ws_date" = the same
\* after leading white space, "other" = anything else (also a blank line).
Lines == {Line("text", p, st, sp) :
            p \in {"date", "ws_date", "other"}, st \in BOOLEAN, sp \in BOOLEAN}

EofLine == Line("eof", "other", FALSE, FALSE)    \* readline() returns ''
NoLine == Line("none", "other", FALSE, FALSE)    \* nothing read yet

\* line.strip(), main.py:274
Strip(l) == [l EXCEPT !.prefix = IF @ = "ws_date" THEN "date" ELSE @]

\* Variant: every line passes the filter.
MatchesAnything(l) == TRUE

\* re.match(r'^\d{4}-\d{2}-\d{2}', line), main.py:277
MatchesDate(l) == l.prefix = "date"

(***************************************************************************)
(* The sinks.  A call is recorded with its outcome; raised says whether an *)
(* exception leaves the function.                                          *)
(***************************************************************************)
Call(o, a, r, x) == [op |-> o, arg |-> a, result |-> r, raised |-> x]

\* Variant: the player's exception leaves play_beep.
PlayBeepUnguarded(os, fails) ==
  Call("play_beep", os, IF fails THEN "error" ELSE "ok", fails)

\* play_beep, main.py:129-151.  fails: the platform player raises.

PlayBeep(os, fails) ==
  IF os = "Windows"
  THEN Call("play_beep", os, IF fails THEN "error_logged" ELSE "ok", FALSE)
  ELSE IF os = "Darwin"
  THEN Call("play_beep", os, IF fails THEN "error_logged" ELSE "ok", FALSE)
  ELSE Call("play_beep", os, "ok", FALSE)

\* notify_mobile, main.py:98-123.  fails: reference() or push() raises.
NotifyMobile(enabled, db, event_type, fails) ==
  IF ~enabled \/ db = "None"
  THEN Call("notify_mobile", event_type, "skipped", FALSE)
  ELSE Call("notify_mobile", event_type, IF fails THEN "push_failed" ELSE "pushed", FALSE)

\* print of the edge event, main.py:230, 234, 282, 289
Emit(kind) == Call("print", kind, "ok", FALSE)

\* Statements run in order until one raises.
RECURSIVE RunCalls(_)
RunCalls(cs) ==
  IF cs = <<>> THEN <<>>
  ELSE IF Head(cs).raised THEN <<Head(cs)>>
  ELSE <<Head(cs)>> \o RunCalls(Tail(cs))

\* Variant: the push is sent before the audio alert.
DispatchStartedPushFirst(os, enabled, db, beepFails, pushFails) ==
  RunCalls(<<Emit("Started"), NotifyMobile(enabled, db, "start", pushFails),
             PlayBeep(os, beepFails)>>)

\* main.py:230-232 and 282-284
DispatchStarted(os, enabled, db, beepFails, pushFails) ==
  RunCalls(<<Emit("Started"), PlayBeep(os, beepFails),
             NotifyMobile(enabled, db, "start", pushFails)>>)

\* Variant: the audio alert also sounds on Stopped.
DispatchStoppedWithBeep(enabled, db, pushFails) ==
  RunCalls(<<Emit("Stopped"), PlayBeep("Windows", FALSE),
             NotifyMobile(enabled, db, "stop", pushFails)>>)

\* main.py:234-235 and 289-290
DispatchStopped(enabled, db, pushFails) ==
  RunCalls(<<Emit("Stopped"), NotifyMobile(enabled, db, "stop", pushFails)>>)

\* Level-triggered variant: an event on every active tick.
PollDetectLevel(now, was, os, enabled, db, beepFails, pushFails) ==
  IF now THEN DispatchStarted(os, enabled, db, beepFails, pushFails)
  ELSE IF was THEN DispatchStopped(enabled, db, pushFails)
  ELSE <<>>

\* State change detection of the poll loop, main.py:229-235
PollDetect(now, was, os, enabled, db, beepFails, pushFails) ==
  IF now /\ ~was THEN DispatchStarted(os, enabled, db, beepFails, pushFails)
  ELSE IF ~now /\ was THEN DispatchStopped(enabled, db, pushFails)
  ELSE <<>>

\* Variant without the guards on was_in_use.
StreamDetectUnguarded(l, was, os, enabled, db, beepFails, pushFails) ==
  IF l.start
  THEN [calls |-> DispatchStarted(os, enabled, db, beepFails, pushFails),
        store |-> "Active"]
  ELSE IF l.stop
  THEN [calls |-> DispatchStopped(enabled, db, pushFails), store |-> "Idle"]
  ELSE [calls |-> <<>>, store |-> "keep"]

\* The marker branches of the stream loop, main.py:280-291: the calls made
\* and the value stored into was_in_use ("keep" when no branch is taken).
StreamDetect(l, was, os, enabled, db, beepFails, pushFails) ==
  IF l.start
  THEN [calls |-> IF ~was THEN DispatchStarted(os, enabled, db, beepFails, pushFails)
                  ELSE <<>>,
        store |-> "Active"]
  ELSE IF l.stop
  THEN [calls |-> IF was THEN DispatchStopped(enabled, db, pushFails) ELSE <<>>,
        store |-> "Idle"]
  ELSE [calls |-> <<>>, store |-> "keep"]

Raised(cs) == cs # <<>> /\ cs[Len(cs)].raised

CountOp(cs, o) == Cardinality({i \in 1..Len(cs) : cs[i].op = o})

Pushes(cs) ==
  Cardinality({i \in 1..Len(cs) :
                 cs[i].op = "notify_mobile" /\ cs[i].result \in {"pushed", "push_failed"}})

RECURSIVE Printed(_)
Printed(cs) ==
  IF cs = <<>> THEN <<>>
  ELSE IF Head(cs).op = "print" THEN <<Head(cs).arg>> \o Printed(Tail(cs))
  ELSE Printed(Tail(cs))

\* Variant: the stored state never becomes Active.
StateNameStale(b) == "Idle"

\* The value "was_in_use = in_use" stores, main.py:237
StateName(b) == IF b THEN "Active" ELSE "Idle"

\* Variant: a failed push switches the remote sink off.
SinkGlobalsDisableOnFailure(enabled, db, cs) ==
  IF \E i \in 1..Len(cs) : cs[i].result = "push_failed"
  THEN [enabled |-> FALSE, db |-> "None"]
  ELSE [enabled |-> enabled, db |-> db]

\* FIREBASE_ENABLED and _firebase_db after the sinks ran.  play_beep and
\* notify_mobile only read them: neither has a global statement nor an
\* assignment to them, and the except of main.py:122-123 only prints.
SinkGlobals(enabled, db, cs) == [enabled |-> enabled, db |-> db]

\* What one loop iteration leaves behind: cs are the calls of its dispatch,
\* store the value assigned to was_in_use at its end ("keep": none).  An
\* exception leaving the dispatch leaves the loop and main (no handler
\* matches it): traceback, exit status 1.
Iteration(cs, store) ==
  /\ events' = events \o Printed(cs)
  /\ beepCalls' = beepCalls + CountOp(cs, "play_beep")
  /\ notifyCalls' = notifyCalls + CountOp(cs, "notify_mobile")
  /\ pushAttempts' = pushAttempts + Pushes(cs)
  /\ ticks' = ticks + 1
  /\ FIREBASE_ENABLED' = SinkGlobals(FIREBASE_ENABLED, firebase_db, cs).enabled
  /\ firebase_db' = SinkGlobals(FIREBASE_ENABLED, firebase_db, cs).db
  /\ IF Raised(cs)
     THEN /\ steps' = cs
          /\ pc' = "exited"
          /\ exitCode' = 1
          /\ UNCHANGED was_in_use
     ELSE /\ steps' = IF store = "keep" THEN cs
                      ELSE cs \o <<Call("store", store, "ok", FALSE)>>
          /\ was_in_use' = IF store = "keep" THEN was_in_use ELSE (store = "Active")
          /\ UNCHANGED <<pc, exitCode>>

(***************************************************************************)
(* Start-up: main.py:316-335                                               *)
(***************************************************************************)
OS == {"Windows", "Darwin", "Linux"}

\* What _init_firebase looks at, main.py:60-85: the SDK imports, the
\* credentials file exists, the database URL is non-empty, the SDK
\* initializes without raising.
FirebaseEnv(sdk, creds, url, initOk) ==
  [sdk |-> sdk, creds |-> creds, url |-> url, initOk |-> initOk]

NoFirebaseEnv == FirebaseEnv(FALSE, FALSE, FALSE, FALSE)

Init ==
  /\ pc = "init"
  /\ os_name \in OS
  /\ FIREBASE_ENABLED = FALSE
  /\ firebase_db = "None"
  /\ fb_path = "not_run"
  /\ was_in_use = FALSE
  /\ in_use = FALSE
  /\ obs = <<>>
  /\ events = <<>>
  /\ steps = <<>>
  /\ beepCalls = 0
  /\ notifyCalls = 0
  /\ pushAttempts = 0
  /\ ticks = 0
  /\ line = NoLine
  /\ reg = EmptyRegistry
  /\ sample = NoSample
  /\ child = "none"
  /\ exitCode = -1
  /\ interrupted = "no"
  /\ launches = 0
  /\ fb_env = NoFirebaseEnv
  /\ details = <<>>
  /\ pushed = <<>>

\* Variant: the database URL is not checked.
InitFirebasePathNoUrlCheck(sdk, creds, url, initOk) ==
  IF ~sdk THEN "ImportError"
  ELSE IF ~creds THEN "no_credentials"
  ELSE IF ~initOk THEN "init_failed"
  ELSE "enabled"

\* The return taken by _init_firebase, main.py:55-92, given whether the SDK
\* imports, the credentials file exists, the URL is non-empty and the SDK
\* initializes.
InitFirebasePath(sdk, creds, url, initOk) ==
  IF ~sdk THEN "ImportError"
  ELSE IF ~creds THEN "no_credentials"
  ELSE IF ~url THEN "no_url"
  ELSE IF ~initOk THEN "init_failed"
  ELSE "enabled"

\* _init_firebase(), main.py:319
InitFirebase(sdk, creds, url, initOk) ==
  /\ pc = "init"
  /\ fb_path' = InitFirebasePath(sdk, creds, url, initOk)
  /\ FIREBASE_ENABLED' = (fb_path' = "enabled")
  /\ firebase_db' = IF fb_path' = "enabled" THEN "db" ELSE "None"
  /\ pc' = "banner"
  /\ UNCHANGED <<os_name, was_in_use, in_use, obs, events, steps, beepCalls,
                 notifyCalls, pushAttempts, ticks, line, reg, sample, child,
                 exitCode, interrupted>>
  /\ fb_env' = FirebaseEnv(sdk, creds, url, initOk)
  /\ UNCHANGED <<launches, details, pushed>>

\* print_banner() and os_name = platform.system(), main.py:322-325
PrintBanner ==
  /\ pc = "banner"
  /\ pc' = "select"
  /\ UNCHANGED <<os_name, FIREBASE_ENABLED, firebase_db, fb_path, was_in_use, in_use,
                 obs, events, steps, beepCalls, notifyCalls, pushAttempts, ticks,
                 line, reg, sample, child, exitCode, interrupted>>
  /\ UNCHANGED <<launches, fb_env, details, pushed>>

\* Variant: the loops start from Active.
InitialActivityActive == TRUE

\* The stored state both loops start from: was_in_use = False,
\* main.py:161 and main.py:266.
InitialActivity == FALSE

\* Variant: every platform but Darwin is polled.
PlatformBranchAnyPoll(os) == IF os = "Darwin" THEN "launch" ELSE "poll"

\* The branch main takes on os_name, main.py:328-335
PlatformBranch(os) ==
  IF os = "Windows" THEN "poll"
  ELSE IF os = "Darwin" THEN "launch"
  ELSE "unsupported"

\* main.py:327-335, up to the first statement of the chosen monitor
\* (was_in_use = False, main.py:161); sys.exit(1) on any other platform.
SelectPlatform ==
  /\ pc = "select"
  /\ IF PlatformBranch(os_name) = "unsupported"
     THEN pc' = "exited" /\ exitCode' = 1
     ELSE pc' = PlatformBranch(os_name) /\ UNCHANGED exitCode
  /\ was_in_use' = InitialActivity
  /\ UNCHANGED <<os_name, FIREBASE_ENABLED, firebase_db, fb_path, in_use, obs, events,
                 steps, beepCalls, notifyCalls, pushAttempts, ticks, line, reg,
                 sample, child, interrupted>>
  /\ UNCHANGED <<launches, fb_env, details, pushed>>

(***************************************************************************)
(* The poll loop: one iteration of main.py:164-238                         *)
(***************************************************************************)
PollTick(r, beepFails, pushFails) ==
  /\ pc = "poll"
  /\ ticks < MaxTicks
  /\ reg' = r
  /\ sample' = Sample(r)
  /\ in_use' = sample'.in_use
  /\ IF sample'.raised # "none"
     THEN \* no handler of the loop or of main matches: traceback, status 1
          /\ pc' = "exited"
          /\ exitCode' = 1
          /\ ticks' = ticks + 1
          /\ steps' = <<>>
          /\ UNCHANGED <<obs, events, beepCalls, notifyCalls, pushAttempts, was_in_use,
                         FIREBASE_ENABLED, firebase_db>>
     ELSE /\ obs' = Append(obs, in_use')
          /\ Iteration(PollDetect(in_use', was_in_use, os_name, FIREBASE_ENABLED,
                                  firebase_db, beepFails, pushFails),
                       StateName(in_use'))
  /\ UNCHANGED <<os_name, fb_path, line, child, interrupted>>
  /\ UNCHANGED <<launches, fb_env, details, pushed>>

(***************************************************************************)
(* The stream loop: main.py:254-291                                        *)
(***************************************************************************)
\* Variant: a failed launch is tried again.
AfterLaunchRetry(ok) == IF ok THEN "launched" ELSE "launch"

\* Where monitor_webcam_mac goes after subprocess.Popen, main.py:254-264:
\* on, or sys.exit(1) from the except.
AfterLaunch(ok) == IF ok THEN "launched" ELSE "exited"

\* subprocess.Popen, main.py:254-264: the child runs, or sys.exit(1).
Launch(ok) ==
  /\ pc = "launch"
  /\ launches' = launches + 1
  /\ child' = IF ok THEN "running" ELSE child
  /\ pc' = AfterLaunch(ok)
  /\ exitCode' = IF pc' = "exited" THEN 1 ELSE exitCode
  /\ UNCHANGED <<os_name, FIREBASE_ENABLED, firebase_db, fb_path, was_in_use, in_use,
                 obs, events, steps, beepCalls, notifyCalls, pushAttempts, ticks,
                 line, reg, sample, interrupted, fb_env, details, pushed>>

\* Popen returns, was_in_use = False, the try of main.py:268 is entered.
EnterStream ==
  /\ pc = "launched"
  /\ was_in_use' = InitialActivity
  /\ pc' = "stream"
  /\ UNCHANGED <<os_name, FIREBASE_ENABLED, firebase_db, fb_path, in_use, obs, events,
                 steps, beepCalls, notifyCalls, pushAttempts, ticks, line, reg,
                 sample, child, exitCode, interrupted>>
  /\ UNCHANGED <<launches, fb_env, details, pushed>>

\* What the loop body does with a line read, main.py:271-291
HandleLine(raw, was, os, enabled, db, beepFails, pushFails) ==
  IF raw.kind = "eof"
  THEN [calls |-> <<>>, store |-> "keep"]
  ELSE IF ~MatchesDate(Strip(raw))
  THEN [calls |-> <<>>, store |-> "keep"]
  ELSE StreamDetect(Strip(raw), was, os, enabled, db, beepFails, pushFails)

\* One iteration on a line the running child wrote.
ReadLine(raw, beepFails, pushFails) ==
  /\ pc = "stream"
  /\ child = "running"
  /\ ticks < MaxTicks
  /\ line' = raw
  /\ LET h == HandleLine(raw, was_in_use, os_name, FIREBASE_ENABLED, firebase_db,
                         beepFails, pushFails)
     IN /\ in_use' = IF h.store = "keep" THEN in_use ELSE (h.store = "Active")
        /\ obs' = IF h.store = "keep" THEN obs ELSE Append(obs, h.store = "Active")
        /\ Iteration(h.calls, h.store)
  /\ UNCHANGED <<os_name, fb_path, reg, sample, child, interrupted>>
  /\ UNCHANGED <<launches, fb_env, details, pushed>>

\* The child ends by itself (killed, crashed, log stream closed).
ChildExits ==
  /\ pc \in {"launched", "stream"}
  /\ child = "running"
  /\ child' = "exited"
  /\ UNCHANGED <<pc, os_name, FIREBASE_ENABLED, firebase_db, fb_path, was_in_use,
                 in_use, obs, events, steps, beepCalls, notifyCalls, pushAttempts,
                 ticks, line, reg, sample, exitCode, interrupted>>
  /\ UNCHANGED <<launches, fb_env, details, pushed>>

\* Where the loop goes after readline() returned '' at end of file:
\* "if not line: continue", main.py:270-272.
AfterEof == "stream"

\* One iteration at end of file.  The child stays ended, so every later
\* iteration is this same step: the loop spins without blocking.
ReadEof ==
  /\ pc = "stream"
  /\ child = "exited"
  /\ line' = EofLine
  /\ LET h == HandleLine(EofLine, was_in_use, os_name, FIREBASE_ENABLED, firebase_db,
                         FALSE, FALSE)
     IN /\ steps' = h.calls
        /\ events' = events \o Printed(h.calls)
  /\ pc' = AfterEof
  /\ exitCode' = IF AfterEof = "exited" THEN 1 ELSE exitCode
  /\ UNCHANGED <<os_name, FIREBASE_ENABLED, firebase_db, fb_path, was_in_use, in_use,
                 obs, beepCalls, notifyCalls, pushAttempts, ticks, reg, sample,
                 child, interrupted>>
  /\ UNCHANGED <<launches, fb_env, details, pushed>>

(***************************************************************************)
(* KeyboardInterrupt: main.py:293-296 and main.py:336-338                  *)
(***************************************************************************)
\* Whether the try of main (main.py:327-338) encloses position p.
InMainTry(p) == p \in {"select", "poll", "launch", "launched", "stream"}

\* Whether the try of monitor_webcam_mac (main.py:268-296) encloses p.
InStreamTry(p) == p = "stream"

\* The exit status after a KeyboardInterrupt raised at p: sys.exit(0) in
\* main's handler; outside it the interpreter dies of the interrupt (130).
InterruptStatus(p) == IF InMainTry(p) THEN 0 ELSE 130

\* process.terminate() in the handler of the stream loop, main.py:293-296
ChildAfterInterrupt(p, c) ==
  IF InStreamTry(p) /\ c = "running" THEN "terminated" ELSE c

\* Ctrl-C.  It is taken at the statement the program is at; inside a loop
\* iteration it takes the same handlers as between two iterations.
Interrupt ==
  /\ pc # "exited"
  /\ interrupted' = pc
  /\ child' = ChildAfterInterrupt(pc, child)
  /\ exitCode' = InterruptStatus(pc)
  /\ pc' = "exited"
  /\ UNCHANGED <<os_name, FIREBASE_ENABLED, firebase_db, fb_path, was_in_use, in_use,
                 obs, events, steps, beepCalls, notifyCalls, pushAttempts, ticks,
                 line, reg, sample>>
  /\ UNCHANGED <<launches, fb_env, details, pushed>>

(***************************************************************************)
(* The details field of a pushed event: main.py:118                        *)
(***************************************************************************)
DetailLimit == 500

Min(a, b) == IF a < b THEN a ELSE b

\* s[:n] of Python: the first n characters, all of s when it is shorter.
Slice(s, n) == SubSeq(s, 1, Min(Len(s), n))

\* Variant: the last DetailLimit characters are kept.
EventDetailsTail(d) ==
  IF d # <<>> THEN SubSeq(d, Len(d) - Min(Len(d), DetailLimit) + 1, Len(d)) ELSE <<>>

\* details[:500] if details else "", main.py:118
EventDetails(d) == IF d # <<>> THEN Slice(d, DetailLimit) ELSE <<>>

\* Strings of length n: one of distinct characters, one of a repeated one.
Text(n, distinct) == [i \in 1..n |-> IF distinct THEN i ELSE 0]

DetailInputs ==
  {Text(n, c) : n \in (0..MaxShort) \cup ((DetailLimit - MaxOver)..(DetailLimit + MaxOver)),
                c \in BOOLEAN}

\* A call notify_mobile(event_type, details) with the sink active.
InitNotify ==
  /\ pc = "notify"
  /\ os_name = "Darwin"
  /\ FIREBASE_ENABLED = TRUE
  /\ firebase_db = "db"
  /\ fb_path = "enabled"
  /\ fb_env = FirebaseEnv(TRUE, TRUE, TRUE, TRUE)
  /\ was_in_use = FALSE
  /\ in_use = FALSE
  /\ obs = <<>>
  /\ events = <<>>
  /\ steps = <<>>
  /\ beepCalls = 0
  /\ notifyCalls = 0
  /\ pushAttempts = 0
  /\ ticks = 0
  /\ line = NoLine
  /\ reg = EmptyRegistry
  /\ sample = NoSample
  /\ child = "running"
  /\ exitCode = -1
  /\ interrupted = "no"
  /\ launches = 1
  /\ details \in DetailInputs
  /\ pushed = <<>>

\* The body of notify_mobile up to ref.push(event_data), main.py:107-120
PushDetails(event_type, fails) ==
  /\ pc = "notify"
  /\ LET c == NotifyMobile(FIREBASE_ENABLED, firebase_db, event_type, fails) IN
       /\ steps' = <<c>>
       /\ pushed' = IF c.result = "skipped" THEN pushed ELSE EventDetails(details)
       /\ notifyCalls' = notifyCalls + 1
       /\ pushAttempts' = pushAttempts + Pushes(<<c>>)
  /\ pc' = "notified"
  /\ UNCHANGED <<os_name, FIREBASE_ENABLED, firebase_db, fb_path, was_in_use, in_use,
                 obs, events, beepCalls, ticks, line, reg, sample, child, exitCode,
                 interrupted, launches, fb_env, details>>

NextNotify == \E t \in {"start", "stop"}, f \in BOOLEAN : PushDetails(t, f)

NotifySpec == InitNotify /\ [][NextNotify]_vars

\* The steps of the program itself.
Program ==
  \/ \E sdk, creds, url, initOk \in BOOLEAN : InitFirebase(sdk, creds, url, initOk)
  \/ PrintBanner
  \/ SelectPlatform
  \/ \E r \in TickSnapshots, bf, pf \in BOOLEAN : PollTick(r, bf, pf)
  \/ \E ok \in BOOLEAN : Launch(ok)
  \/ EnterStream
  \/ \E l \in Lines, bf, pf \in BOOLEAN : ReadLine(l, bf, pf)
  \/ ReadEof

\* The steps of its environment.
Environment ==
  \/ ChildExits
  \/ Interrupt

Next == Program \/ Environment

Spec == Init /\ [][Next]_vars

\* The interpreter keeps running the program; nothing obliges the
\* environment to interrupt it or the child to end.
FairSpec == Spec /\ WF_vars(Program)

(***************************************************************************)
(* Properties                                                              *)
(***************************************************************************)
Last(q) == q[Len(q)]

\* The edge between a stored state and an observed one.
Edge(prev, now) ==
  IF now /\ ~prev THEN <<"Started">>
  ELSE IF prev /\ ~now THEN <<"Stopped">>
  ELSE <<>>

\* A step that takes one more normalized observation (a poll tick, or a
\* dated marker line of the stream).
Observes == Len(obs') = Len(obs) + 1

\* C1: for every observation after the first, exactly one edge event is
\* emitted when the observed state differs from the stored state (Started
\* for Idle->Active, Stopped for Active->Idle) and none when it is equal.
C1_EdgeIffStateDiffers ==
  [][(Observes /\ obs # <<>>) => events' = events \o Edge(was_in_use, Last(obs'))]_vars

C1_Witness ==
  /\ obs = <<FALSE, TRUE, TRUE, FALSE>>
  /\ events = <<"Started", "Stopped">>
  /\ ~was_in_use

\* C2 as stated: the first observation never emits an event and invokes no
\* sink, whatever it is.
C2_FirstObservationSilent ==
  Len(obs) = 1 => events = <<>> /\ beepCalls = 0 /\ notifyCalls = 0

\* C2 amended: the first observation is compared with the initial stored
\* state Idle: a first observation of Idle emits nothing and invokes no
\* sink, a first observation of Active emits Started (one play_beep, one
\* notify_mobile); nothing is emitted before the first observation.
C2_FirstObservationAgainstIdle ==
  /\ obs = <<>> => events = <<>> /\ beepCalls = 0 /\ notifyCalls = 0
  /\ (Len(obs) = 1 /\ ~obs[1]) =>
        events = <<>> /\ beepCalls = 0 /\ notifyCalls = 0 /\ ~was_in_use
  /\ (Len(obs) = 1 /\ obs[1]) =>
        events = <<"Started">> /\ beepCalls = 1 /\ notifyCalls = 1 /\ was_in_use

C2_Witness ==
  /\ obs = <<TRUE>>
  /\ ticks = 1
  /\ events = <<"Started">>
  /\ beepCalls = 1

\* A dated line holding the start token; a dated line holding only the
\* stop token.
StartMarker(l) == l.kind = "text" /\ MatchesDate(Strip(l)) /\ l.start
StopMarker(l) == l.kind = "text" /\ MatchesDate(Strip(l)) /\ ~l.start /\ l.stop

SinksUntouched ==
  /\ events' = events
  /\ beepCalls' = beepCalls
  /\ notifyCalls' = notifyCalls
  /\ pushAttempts' = pushAttempts

\* k start observations followed by one stop observation.
StartsThenStop(q) ==
  /\ Len(q) >= 2
  /\ \A i \in 1..Len(q) : q[i] <=> (i < Len(q))

\* C3: in the stream loop a start marker read while the stored state is
\* Active emits nothing and leaves it Active, a stop marker read while it is
\* Idle emits nothing and leaves it Idle; k start lines followed by a stop
\* line yield exactly one Started then one Stopped.
C3_StreamIdempotent ==
  /\ [][(pc = "stream" /\ ticks' = ticks + 1) =>
          /\ (StartMarker(line') /\ was_in_use) => SinksUntouched /\ was_in_use'
          /\ (StopMarker(line') /\ ~was_in_use) => SinksUntouched /\ ~was_in_use']_vars
  /\ []((os_name = "Darwin" /\ StartsThenStop(obs)) => events = <<"Started", "Stopped">>)

C3_Witness ==
  /\ os_name = "Darwin"
  /\ obs = <<TRUE, TRUE, TRUE, FALSE>>
  /\ events = <<"Started", "Stopped">>
  /\ line.stop
  /\ ~was_in_use

\* Whether some consumer record of either group holds LastUsedTimeStop = 0.
IsActiveRecord(e) ==
  e.name # "NonPackaged" /\ e.open = "ok" /\ e.query = "ok" /\ e.stop = 0

AnyActive(r) ==
  \/ \E i \in 1..Len(r.pkg) : IsActiveRecord(r.pkg[i])
  \/ \E i \in 1..Len(r.nonpkg) : IsActiveRecord(r.nonpkg[i])

\* C4: the in_use value a poll tick computes is Active if and only if at
\* least one record of either group has LastUsedTimeStop equal to 0.
C4_InUseIffAnyRecordActive ==
  (os_name = "Windows" /\ ticks > 0) => (in_use <=> AnyActive(reg))

\* A call of sink o in cs whose player or push raised.
FailedCall(cs, o) ==
  \E i \in 1..Len(cs) : cs[i].op = o /\ cs[i].result \in {"error", "error_logged", "push_failed"}

CallAfter(cs, o1, o2) ==
  \E i, j \in 1..Len(cs) : i < j /\ cs[i].op = o1 /\ cs[j].op = o2

\* C5: for every emitted event a failure of play_beep does not keep
\* notify_mobile from being invoked for the same event, and a failure of
\* either sink does not leave the loop: the stored state is updated and the
\* loop stays where it is.
C5_SinkIsolation ==
  [][events' # events =>
       /\ FailedCall(steps', "play_beep") => CallAfter(steps', "play_beep", "notify_mobile")
       /\ (FailedCall(steps', "play_beep") \/ FailedCall(steps', "notify_mobile")) =>
            /\ pc' = pc
            /\ exitCode' = exitCode
            /\ was_in_use' = (Last(events') = "Started")
            /\ Last(steps').op = "store"]_vars

C5_Witness ==
  /\ pc \in {"poll", "stream"}
  /\ FailedCall(steps, "play_beep")
  /\ FailedCall(steps, "notify_mobile")
  /\ CallAfter(steps, "play_beep", "notify_mobile")
  /\ was_in_use

CountOf(q, x) == Cardinality({i \in 1..Len(q) : q[i] = x})

\* C6: play_beep is invoked exactly once for each Started event and never
\* for a Stopped one; the remote push is attempted exactly once for each
\* event when the sink is active; no sink is invoked without an event.
C6_SinkCounts ==
  /\ beepCalls = CountOf(events, "Started")
  /\ notifyCalls = Len(events)
  /\ pushAttempts = (IF FIREBASE_ENABLED THEN Len(events) ELSE 0)

C6_Witness ==
  /\ os_name = "Windows"
  /\ obs = <<FALSE, FALSE, TRUE, TRUE, FALSE>>
  /\ FIREBASE_ENABLED
  /\ events = <<"Started", "Stopped">>
  /\ beepCalls = 1
  /\ pushAttempts = 2
  /\ FailedCall(steps, "notify_mobile")

\* C7: an interrupt arriving at any point after the child was launched
\* leaves the child terminated and the process exited with code 0.
C7_InterruptTerminatesChild ==
  (pc = "exited" /\ interrupted \in {"launched", "stream"}) =>
     child # "running" /\ exitCode = 0

\* C8: once the child's output is at end of file the monitor eventually
\* leaves the loop and exits non-zero (unless the user interrupts it first).
C8_EofIsFatal ==
  (pc = "stream" /\ child = "exited") ~>
     ((pc = "exited" /\ exitCode > 0) \/ interrupted # "no")

\* An enumeration error other than a missing key or sub-value: one that
\* reaches the except Exception of the tick (main.py:225) and is printed.
OtherError(s) == \E c \in s.caught : c[1] = "outer"

\* C9: a poll tick whose enumeration fails with an error other than a
\* missing key/sub-value keeps the stored state and emits no event.
C9_ErrorTickRetainsState ==
  [][(pc = "poll" /\ ticks' = ticks + 1 /\ OtherError(sample')) =>
       was_in_use' = was_in_use /\ events' = events]_vars

\* C10: on a platform that is neither Windows nor Darwin no loop is
\* entered, no event is emitted, no sink is invoked, and the run (left
\* alone) ends with exit code 1.
C10_UnsupportedPlatform ==
  os_name \notin {"Windows", "Darwin"} =>
     /\ pc \notin {"poll", "launch", "launched", "stream"}
     /\ events = <<>>
     /\ ticks = 0
     /\ beepCalls = 0
     /\ notifyCalls = 0
     /\ pushAttempts = 0
     /\ child = "none"
     /\ (pc = "exited" /\ interrupted = "no") => exitCode = 1

C10_Witness ==
  /\ os_name = "Linux"
  /\ pc = "exited"
  /\ interrupted = "no"
  /\ exitCode = 1
  /\ events = <<>>

\* C11: a failed launch of the log-stream child is attempted once, ends
\* the process with exit code 1 (not turned into 0 by main's handler), and
\* the reading loop is never entered: no line is read, no event emitted.
C11_LaunchFailureIsFatal ==
  /\ launches <= 1
  /\ (launches = 1 /\ child = "none") =>
       /\ pc = "exited"
       /\ exitCode = 1
       /\ interrupted = "no"
       /\ ticks = 0
       /\ line = NoLine
       /\ events = <<>>
       /\ beepCalls = 0
       /\ notifyCalls = 0

C11_Witness ==
  /\ os_name = "Darwin"
  /\ launches = 1
  /\ child = "none"
  /\ pc = "exited"
  /\ exitCode = 1

\* The events a run of observations yields from the stored state prev.
RECURSIVE EventsFrom(_, _)
EventsFrom(prev, q) ==
  IF q = <<>> THEN <<>>
  ELSE Edge(prev, Head(q)) \o EventsFrom(Head(q), Tail(q))

\* C12: the remote sink is active only if the SDK is there, the credentials
\* file exists, the URL is non-empty and the SDK initialized; otherwise
\* start-up goes on (only an interrupt ends it), no push is ever made, and
\* the events and the audio alerts are those the observations call for,
\* the same whether the sink is active or not.
C12_RemotePushGating ==
  /\ [](FIREBASE_ENABLED <=>
          (fb_path # "not_run" /\ fb_env.sdk /\ fb_env.creds /\ fb_env.url
             /\ fb_env.initOk))
  /\ [](~FIREBASE_ENABLED => pushAttempts = 0)
  /\ [](events = EventsFrom(FALSE, obs) /\ beepCalls = CountOf(events, "Started"))
  /\ [][pc = "init" => (pc' = "banner" /\ exitCode' = -1) \/ interrupted' = "init"]_vars

C12_Witness ==
  /\ fb_path = "no_url"
  /\ fb_env.creds
  /\ ~FIREBASE_ENABLED
  /\ events = <<"Started", "Stopped">>
  /\ beepCalls = 1
  /\ notifyCalls = 2
  /\ pushAttempts = 0

\* C13: the details field pushed is the first 500 characters of the
\* string when it is longer than 500 (length exactly 500), and the string
\* itself when it is at most 500 long (the empty string stays empty).
C13_DetailTruncation ==
  pc = "notified" =>
    /\ Len(details) > 500 =>
         /\ Len(pushed) = 500
         /\ \A i \in 1..500 : pushed[i] = details[i]
    /\ Len(details) <= 500 => pushed = details

C13_Witness ==
  /\ pc = "notified"
  /\ Len(details) = 501
  /\ details[501] = 501
  /\ Len(pushed) = 500
  /\ pushed[500] = 500

\* A step of the stream loop that reads a line.
ReadsLine == pc = "stream" /\ ticks' = ticks + 1

FrameKept == SinksUntouched /\ was_in_use' = was_in_use /\ obs' = obs

\* C14 as stated: a line that does not begin with a YYYY-MM-DD prefix never
\* changes the stored state and never emits an event, whatever tokens it
\* holds; nor does a dated line holding neither token.
C14_UndatedLineDiscarded ==
  [][ReadsLine =>
       /\ line'.prefix # "date" => FrameKept
       /\ (~line'.start /\ ~line'.stop) => FrameKept]_vars

\* C14 amended: the date prefix is looked for after strip(): a line that,
\* once leading and trailing white space is removed, does not begin with a
\* YYYY-MM-DD prefix is discarded, as is a dated line holding neither token.
C14_UndatedAfterStripDiscarded ==
  [][ReadsLine =>
       /\ line'.prefix = "other" => FrameKept
       /\ (~line'.start /\ ~line'.stop) => FrameKept]_vars

C14_Witness ==
  /\ pc = "stream"
  /\ line.kind = "text"
  /\ line.prefix = "other"
  /\ line.start
  /\ ticks = 2
  /\ events = <<"Started">>
  /\ was_in_use

\* A snapshot in which nothing fails except by being missing: no key and
\* no value is unreadable for another reason.
Unreadable(e) == e.open = "PermissionError" \/ e.query = "PermissionError"

OnlyMissing(r) ==
  /\ r.webcam # "PermissionError"
  /\ r.nonpkgKey # "PermissionError"
  /\ \A i \in 1..Len(r.pkg) : ~Unreadable(r.pkg[i])
  /\ \A i \in 1..Len(r.nonpkg) : ~Unreadable(r.nonpkg[i])

\* C15: a record whose key cannot be opened, a record without the
\* LastUsedTimeStop value and a missing group key are skipped without
\* failing the sample, and every other record is still examined: an active
\* record after the missing one still makes the tick Active.
C15_MissingRecordsSkipped ==
  (os_name = "Windows" /\ ticks > 0 /\ OnlyMissing(reg)) =>
     /\ ~OtherError(sample)
     /\ in_use <=> AnyActive(reg)

\* An exception raised by OpenKey or QueryValueEx during the enumeration
\* (the OSError by which EnumKey ends a group is not one).
SamplingError(s) == \E c \in s.caught : c # Caught("enum_break", "OSError")

\* C16: no enumeration error ends the poll loop: a tick in which sampling
\* raised an error is completed (state stored, loop still running), and
\* the loop is left only by an interrupt.
C16_PollLoopSurvivesErrors ==
  [][pc = "poll" =>
       /\ (ticks' = ticks + 1 /\ SamplingError(sample')) =>
            /\ pc' = "poll"
            /\ exitCode' = -1
            /\ steps' # <<>> /\ Last(steps').op = "store"
            /\ was_in_use' = in_use'
       /\ pc' # "poll" => interrupted' = "poll" /\ ticks' = ticks]_vars

C16_Witness ==
  /\ pc = "poll"
  /\ ticks = 3
  /\ OtherError(sample)
  /\ Caught("outer", "PermissionError") \in sample.caught
  /\ Last(steps).op = "store"
  /\ exitCode = -1

\* C17: an interrupt arriving at any point of the run, in any phase, ends
\* the process with exit code 0.
C17_InterruptExitsZero ==
  (pc = "exited" /\ interrupted # "no") => exitCode = 0

Ops(cs) == [i \in 1..Len(cs) |-> cs[i].op]

\* C18: an iteration that detects an edge prints the event, then calls the
\* sinks, and only then stores the new state; for Started the audio alert
\* is called before the remote push.  The store is the last step of the
\* iteration and its value is the state the event announces.
C18_DetectDispatchStore ==
  (\E i \in 1..Len(steps) : steps[i].op = "print") =>
    /\ steps[1].op = "print"
    /\ \A i \in 1..Len(steps) : steps[i].op = "store" <=> i = Len(steps)
    /\ steps[1].arg = "Started" =>
         /\ Ops(steps) = <<"print", "play_beep", "notify_mobile", "store">>
         /\ Last(steps).arg = "Active"
    /\ steps[1].arg = "Stopped" =>
         /\ Ops(steps) = <<"print", "notify_mobile", "store">>
         /\ Last(steps).arg = "Idle"
    /\ was_in_use = (Last(steps).arg = "Active")

C18_Witness ==
  /\ pc = "stream"
  /\ Ops(steps) = <<"print", "play_beep", "notify_mobile", "store">>
  /\ steps[2].result = "error_logged"
  /\ steps[3].result = "pushed"
  /\ was_in_use

\* C19: the events of a run alternate, beginning with Started, and after
\* every iteration Started minus Stopped is 1 when the stored state is
\* Active and 0 when it is Idle.
C19_EventsAlternate ==
  /\ \A i \in 1..Len(events) :
       events[i] = (IF i % 2 = 1 THEN "Started" ELSE "Stopped")
  /\ CountOf(events, "Started") - CountOf(events, "Stopped")
       = (IF was_in_use THEN 1 ELSE 0)

C19_Witness ==
  /\ events = <<"Started", "Stopped", "Started">>
  /\ was_in_use
  /\ pc \in {"poll", "stream"}

\* C20: after start-up no step changes the enabled flag or the database
\* handle, whatever the sinks' outcome; while the sink is enabled every
\* event is followed by a push attempt, also after a failed one; and the
\* flag is set only together with the handle.
C20_SinkAvailabilityFixed ==
  /\ [][pc # "init" =>
          /\ FIREBASE_ENABLED' = FIREBASE_ENABLED
          /\ firebase_db' = firebase_db]_vars
  /\ [][(FIREBASE_ENABLED /\ Len(events') = Len(events) + 1) =>
          pushAttempts' = pushAttempts + 1]_vars
  /\ [](FIREBASE_ENABLED => firebase_db = "db")

C20_Witness ==
  /\ FIREBASE_ENABLED /\ firebase_db = "db"
  /\ FailedCall(steps, "notify_mobile")
  /\ FailedCall(steps, "play_beep")
  /\ pushAttempts >= 2
  /\ pc \in {"poll", "stream"}

====
